---- MODULE Spec2Model ----
(***************************************************************************)
(* A model of the Node.js binding of the voyager nearest-neighbour index   *)
(* (nodejs/src/voyager-node.cc) and of the index engine it calls into.     *)
(*                                                                         *)
(* The binding is translated from voyager-node.cc.  The engine (Index.h,   *)
(* TypedIndex.h, Metadata.h, Enums.h) is modelled from the written         *)
(* specification of the repository.                                        *)
(*                                                                         *)
(* Five specifications share the module: SpecLoad is one loadIndex or      *)
(* fromBuffer call, SpecNew is one constructor call, Spec is a sequence of *)
(* method calls on one index, SpecBatch is one addItems call whose rows a  *)
(* pool of workers inserts, and SpecStream is a sequence of calls on one   *)
(* MemoryInputStream.                                                      *)
(***************************************************************************)
EXTENDS Integers, Sequences, FiniteSets, TLC

VARIABLES
  stream,      \* the byte stream handed to loadIndex / fromBuffer
  options,     \* the options object handed to loadIndex / fromBuffer
  loaded,      \* what the load call returned
  input,       \* a MemoryInputStream: its data and its position
  got,         \* what the last call on the MemoryInputStream returned
  index_,      \* IndexWrapper::index_: the engine's index
  batch,       \* the addItems call in progress: its rows and their labels
  workers,     \* each worker thread of the pool: where it is in its row
  locks,       \* the per-node locks: the worker holding each, or NoWorker
  torn,        \* the nodes whose neighbour list is being rewritten
  tornRead     \* whether a search has read a list while it was rewritten

loadVars == <<stream, options, loaded, input, got>>
indexVars == <<index_>>
batchVars == <<batch, workers, locks, torn, tornRead>>
vars == <<stream, options, loaded, input, got, index_, batch, workers, locks,
          torn, tornRead>>

(***************************************************************************)
(* Node-API number coercions                                               *)
(***************************************************************************)
\* The width of the binding's 32-bit integers, scaled down to WordBits bits so
\* that the wrap-around stays inside the integers TLC can hold.
WordBits == 6
TwoToWord == 2 ^ WordBits
HalfWord == 2 ^ (WordBits - 1)

\* Napi::Number::Uint32Value: the ECMAScript ToUint32 of an integral number.
Uint32Value(n) == n % TwoToWord

\* The conversion of a uint32_t to int (two's complement).
ToInt(u) == IF u >= HalfWord THEN u - TwoToWord ELSE u

\* Napi::Number::Int32Value: the ECMAScript ToInt32 of an integral number.
Int32Value(n) == ToInt(n % TwoToWord)

(***************************************************************************)
(* MemoryInputStream: the bytes of a Buffer read through a position        *)
(***************************************************************************)
MaxData == 5         \* the longest data of a stream
\* The values a byte of the data takes.
Bytes == {1, 127}
\* sizeof(uint32_t)
PeekSize == 4
\* The values of a byte: a uint32_t is four base-256 digits.
ByteBase == 256

\* The value memcpy gives a uint32_t whose bytes are bs, lowest byte first.
RECURSIVE Word32(_)
Word32(bs) == IF bs = <<>> THEN 0 ELSE Head(bs) + ByteBase * Word32(Tail(bs))

\* MemoryInputStream(data)
MemoryInputStream(data) == [data |-> data, position |-> 0]

\* What a call leaves and returns: the stream, the number returned, the
\* boolean returned, the bytes copied out, whether it threw.
Outcome(in, ret, ok, bytes, threw) ==
  [input |-> in, ret |-> ret, ok |-> ok, bytes |-> bytes, threw |-> threw]

getTotalLength(in) == Outcome(in, Len(in.data), TRUE, <<>>, FALSE)
getPosition(in) == Outcome(in, in.position, TRUE, <<>>, FALSE)
isExhausted(in) ==
  Outcome(in, 0, in.position >= Len(in.data), <<>>, FALSE)

\* A read that copies as many bytes as it is asked for.
read_Unclamped(in, bytesToRead) ==
  IF bytesToRead > 0
  THEN Outcome([in EXCEPT !.position = @ + bytesToRead], bytesToRead, TRUE,
               [i \in 1..bytesToRead |-> 0], FALSE)
  ELSE Outcome(in, bytesToRead, TRUE, <<>>, FALSE)
read(in, bytesToRead) ==
  LET bytesAvailable == Len(in.data) - in.position
      bytesToActuallyRead ==
        IF bytesToRead <= bytesAvailable THEN bytesToRead ELSE bytesAvailable
  IN  IF bytesToActuallyRead > 0
      THEN Outcome([in EXCEPT !.position = @ + bytesToActuallyRead],
                   bytesToActuallyRead, TRUE,
                   SubSeq(in.data, in.position + 1,
                          in.position + bytesToActuallyRead),
                   FALSE)
      ELSE Outcome(in, bytesToActuallyRead, TRUE, <<>>, FALSE)

\* A setPosition that refuses the end of the data.
setPosition_BeforeEnd(in, newPosition) ==
  IF newPosition < 0 \/ newPosition >= Len(in.data)
  THEN Outcome(in, 0, FALSE, <<>>, FALSE)
  ELSE Outcome([in EXCEPT !.position = newPosition], 0, TRUE, <<>>, FALSE)
setPosition(in, newPosition) ==
  IF newPosition < 0 \/ newPosition > Len(in.data)
  THEN Outcome(in, 0, FALSE, <<>>, FALSE)
  ELSE Outcome([in EXCEPT !.position = newPosition], 0, TRUE, <<>>, FALSE)

\* A peek that consumes what it returns.
peek_Consumes(in) ==
  IF in.position + PeekSize > Len(in.data)
  THEN Outcome(in, 0, TRUE, <<>>, TRUE)
  ELSE Outcome([in EXCEPT !.position = @ + PeekSize],
               Word32(SubSeq(in.data, in.position + 1,
                             in.position + PeekSize)),
               TRUE, <<>>, FALSE)
peek(in) ==
  IF in.position + PeekSize > Len(in.data)
  THEN Outcome(in, 0, TRUE, <<>>, TRUE)
  ELSE Outcome(in,
               Word32(SubSeq(in.data, in.position + 1,
                             in.position + PeekSize)),
               TRUE, <<>>, FALSE)

\* No stream, and no call on it yet.
NoInput == MemoryInputStream(<<>>)
NoCall == [op |-> "none", arg |-> 0, ret |-> 0, ok |-> TRUE, bytes |-> <<>>,
           threw |-> FALSE]
StreamIdle == input = NoInput /\ got = NoCall

(***************************************************************************)
(* Enumerations.  An option whose number is no enumerator is "Unknown".    *)
(***************************************************************************)
SpaceTypes == {"Euclidean", "InnerProduct", "Cosine"}
StorageDataTypes == {"Float8", "Float32", "E4M3"}
\* static_cast<SpaceType>(Uint32Value) of the number of an enumerator.
ToSpaceType(s) == IF s \in SpaceTypes THEN s ELSE "Unknown"
\* static_cast<StorageDataType>(Uint32Value).
ToStorageDataType(t) == IF t \in StorageDataTypes THEN t ELSE "Unknown"

(***************************************************************************)
(* Inputs of a load                                                        *)
(***************************************************************************)
MaxDims == 3
DimValues == 2..MaxDims
\* numDimensions as a caller may write it: negative, zero or positive.
OptDimValues == {-1, 0} \cup DimValues

OptionKeys == {"space", "numDimensions", "storageDataType"}

\* options.Has(key), for an options argument that is an object.
Has(o, key) == o.present /\ key \in o.keys

NullIndex == [space |-> "null", numDimensions |-> 0, storageDataType |-> "null"]
NotLoaded == [via |-> "none", err |-> "none", index |-> NullIndex]

ModernStreams ==
  [kind : {"modern"}, space : SpaceTypes, numDimensions : DimValues,
   storageDataType : StorageDataTypes]
LegacyStreams ==
  [kind : {"legacy"}, space : {"null"}, numDimensions : {0},
   storageDataType : {"null"}]
Streams == ModernStreams \cup LegacyStreams

\* No second argument (or one that is no object).
NoOptions ==
  [present |-> FALSE, keys |-> {}, space |-> "Euclidean", numDimensions |-> 0,
   storageDataType |-> "Float32"]
\* An options object: the keys it has, and a value for each of them (a key
\* the object lacks is given one fixed value, which nothing reads).
OptionObjects ==
  { o \in [present : {TRUE}, keys : SUBSET OptionKeys, space : SpaceTypes,
           numDimensions : OptDimValues,
           storageDataType : StorageDataTypes \cup {"Unknown"}] :
      /\ "space" \notin o.keys => o.space = "Euclidean"
      /\ "numDimensions" \notin o.keys => o.numDimensions = 0
      /\ "storageDataType" \notin o.keys => o.storageDataType = "Float32" }
AllOptions == OptionObjects \cup {NoOptions}

(***************************************************************************)
(* Engine side of a load                                                   *)
(***************************************************************************)
\* voyager::Metadata::loadFromStream: the header, when the stream has one.
HasMetadata(s) == s.kind = "modern"

\* loadTypedIndexFromMetadata: the index the header describes.
LoadTypedIndexFromMetadata(s) ==
  [space |-> s.space, numDimensions |-> s.numDimensions,
   storageDataType |-> s.storageDataType]

\* TypedIndex<...>(inputStream, space, numDimensions): a header-less load.
LegacyTypedIndex(space, numDimensions, storageDataType) ==
  [space |-> space, numDimensions |-> numDimensions,
   storageDataType |-> storageDataType]

(***************************************************************************)
(* IndexWrapper::LoadIndex and IndexWrapper::FromBuffer                    *)
(***************************************************************************)
\* The defaults and the options read before the stream is opened.
OptSpace(o) == IF Has(o, "space") THEN ToSpaceType(o.space) ELSE "Euclidean"
OptNumDimensions(o) ==
  IF Has(o, "numDimensions") THEN Int32Value(o.numDimensions) ELSE 0
OptStorageDataType(o) ==
  IF Has(o, "storageDataType") THEN ToStorageDataType(o.storageDataType)
  ELSE "Float32"

\* The three comparisons of the options with the header, in the code's order.
StorageMismatch(s, o) ==
  Has(o, "storageDataType")
    /\ s.storageDataType # ToStorageDataType(o.storageDataType)
SpaceMismatch(s, o) ==
  Has(o, "space") /\ s.space # ToSpaceType(o.space)
\* A loader that forgets to compare the dimensions.
DimsMismatch_Skipped(s, o) == FALSE
DimsMismatch(s, o) ==
  Has(o, "numDimensions")
    /\ s.numDimensions # ToInt(Uint32Value(o.numDimensions))

Failure(via, kind) == [via |-> via, err |-> kind, index |-> NullIndex]
Success(via, idx) == [via |-> via, err |-> "none", index |-> idx]

\* The branch taken when the stream starts with a metadata header.
LoadWithMetadata(via, s, o) ==
  IF StorageMismatch(s, o) \/ SpaceMismatch(s, o) \/ DimsMismatch(s, o)
  THEN Failure(via, "ParameterMismatch")
  ELSE Success(via, LoadTypedIndexFromMetadata(s))

\* The switch over the storage data type of a header-less load.
LoadLegacy(via, o) ==
  IF OptStorageDataType(o) \in StorageDataTypes
  THEN Success(via, LegacyTypedIndex(OptSpace(o), OptNumDimensions(o),
                                     OptStorageDataType(o)))
  ELSE Failure(via, "UnsupportedStorageType")

\* loadIndex refuses a header-less file when numDimensions <= 0.
LoadIndexMissingDims(o) == OptNumDimensions(o) <= 0
\* A fromBuffer whose test lets a zero numDimensions through.
FromBufferMissingDims_Negative(o) == OptNumDimensions(o) < 0
\* fromBuffer refuses a header-less buffer when numDimensions == 0.
FromBufferMissingDims(o) == OptNumDimensions(o) = 0

LoadIndexResult(s, o) ==
  IF HasMetadata(s) THEN LoadWithMetadata("loadIndex", s, o)
  ELSE IF LoadIndexMissingDims(o) THEN Failure("loadIndex", "MissingParameters")
  ELSE LoadLegacy("loadIndex", o)

FromBufferResult(s, o) ==
  IF HasMetadata(s) THEN LoadWithMetadata("fromBuffer", s, o)
  ELSE IF FromBufferMissingDims(o)
       THEN Failure("fromBuffer", "MissingParameters")
  ELSE LoadLegacy("fromBuffer", o)

(***************************************************************************)
(* The index engine: data model                                            *)
(***************************************************************************)
\* The bounds of the model.
MaxCapacity == 2     \* the largest capacity a resize asks for
MaxLevel == 1        \* the highest layer a node is assigned
NumDims == 4         \* the dimensionality of the index

\* The ef of a fresh index, which a query falls back to.
DefaultEf == 10
\* The defaults of the constructor's options.
DefaultM == 12
DefaultEfConstruction == 200
DefaultRandomSeed == 1
DefaultMaxElements == 1

\* float has a 24-bit significand: the integers up to 2^24 are exact.
FloatSignificandBits == 24
BigLabel == 2 ^ FloatSignificandBits

\* static_cast<float> of a non-negative integer: round to nearest, ties to even.
ToFloat(n) ==
  LET e == CHOOSE x \in 0..7 :
             /\ n < 2 ^ (FloatSignificandBits + x)
             /\ (x = 0 \/ n >= 2 ^ (FloatSignificandBits + x - 1))
      q == 2 ^ e
      r == n % q
      base == n - r
  IN  IF 2 * r < q THEN base
      ELSE IF 2 * r > q THEN base + q
      ELSE IF (base \div q) % 2 = 0 THEN base
      ELSE base + q

Unit(j) == [i \in 1..NumDims |-> IF i = j THEN 1 ELSE 0]
\* The vectors a caller adds or queries with.
Points == {Unit(1), Unit(2)}
\* A vector of the wrong length.
ShortVector == [i \in 1..(NumDims - 1) |-> 1]

RECURSIVE SumSq(_, _, _)
SumSq(a, b, i) ==
  IF i = 0 THEN 0 ELSE (a[i] - b[i]) * (a[i] - b[i]) + SumSq(a, b, i - 1)

\* The Euclidean space: the squared distance.
Distance(a, b) == SumSq(a, b, Len(a))

\* An index as the engine's constructor leaves it, its parameters in the
\* order of the construct operation; the storage type is the variant of the
\* engine that is built.  Internal index i is slot i + 1.
NewIndex(space, numDimensions, M, efConstruction, randomSeed, maxElements, storageDataType) ==
  [space |-> space, numDimensions |-> numDimensions, M |-> M,
   efConstruction |-> efConstruction, ef |-> DefaultEf,
   randomSeed |-> randomSeed,
   storageDataType |-> storageDataType, maxElements |-> maxElements,
   labels |-> <<>>, vectors |-> <<>>, levels |-> <<>>, links |-> <<>>,
   deleted |-> {}, entryPoint |-> 0, currentLabel |-> 0]

NumElements(idx) == Len(idx.labels)
Slots(idx) == 1..Len(idx.labels)
LabelSet(idx) == {idx.labels[s] : s \in Slots(idx)}
SlotOf(idx, label) == CHOOSE s \in Slots(idx) : idx.labels[s] = label
LiveSlots(idx) == Slots(idx) \ idx.deleted
\* The neighbour list of a slot at a layer (empty above the node's level).
Neighbors(idx, s, layer) ==
  IF layer <= idx.levels[s] THEN idx.links[s][layer + 1] ELSE {}
MaxLinks(idx, layer) == IF layer = 0 THEN 2 * idx.M ELSE idx.M

(***************************************************************************)
(* The index engine: graph search                                          *)
(***************************************************************************)
\* s comes before t when ordered by distance to q (ties by slot).
Before(idx, q, s, t) ==
  LET ds == Distance(q, idx.vectors[s])
      dt == Distance(q, idx.vectors[t])
  IN  ds < dt \/ (ds = dt /\ s <= t)
Closest(idx, q, S) == CHOOSE s \in S : \A t \in S : Before(idx, q, s, t)
Farthest(idx, q, S) == CHOOSE s \in S : \A t \in S : Before(idx, q, t, s)

RECURSIVE SortByDistance(_, _, _)
SortByDistance(idx, q, S) ==
  IF S = {} THEN <<>>
  ELSE LET c == Closest(idx, q, S)
       IN  <<c>> \o SortByDistance(idx, q, S \ {c})

\* Greedy descent at one layer: walk to the closest neighbour while it is
\* closer to q than the current node.
RECURSIVE GreedyWalk(_, _, _, _)
GreedyWalk(idx, q, cur, layer) ==
  LET nbrs == Neighbors(idx, cur, layer)
      best == Closest(idx, q, nbrs \cup {cur})
  IN  IF Distance(q, idx.vectors[best]) < Distance(q, idx.vectors[cur])
      THEN GreedyWalk(idx, q, best, layer)
      ELSE cur

\* Greedy descent from layer `from` down to layer `to` + 1.
RECURSIVE Descend(_, _, _, _, _)
Descend(idx, q, cur, from, to) ==
  IF from <= to THEN cur
  ELSE Descend(idx, q, GreedyWalk(idx, q, cur, from), from - 1, to)

\* One neighbour e of the expanded candidate: it joins the frontier and, when
\* eligible, the result set, which is cut back to its ef closest.
Visit(idx, q, ef, eligible, e, st) ==
  LET full == Cardinality(st.W) >= ef
      worst == Farthest(idx, q, st.W)
      better == ~full \/ Before(idx, q, e, worst)
      W1 == IF e \in eligible THEN st.W \cup {e} ELSE st.W
      W2 == IF Cardinality(W1) > ef THEN W1 \ {Farthest(idx, q, W1)} ELSE W1
  IN  IF e \in st.V THEN st
      ELSE IF better THEN [C |-> st.C \cup {e}, W |-> W2, V |-> st.V \cup {e}]
      ELSE [st EXCEPT !.V = @ \cup {e}]

RECURSIVE VisitAll(_, _, _, _, _, _)
VisitAll(idx, q, ef, eligible, es, st) ==
  IF es = <<>> THEN st
  ELSE VisitAll(idx, q, ef, eligible, Tail(es),
                Visit(idx, q, ef, eligible, Head(es), st))

\* Best-first search of one layer: expand the closest frontier node until the
\* frontier cannot improve the worst of a full result set.
RECURSIVE SearchLoop(_, _, _, _, _, _)
SearchLoop(idx, q, layer, ef, eligible, st) ==
  IF st.C = {} THEN st.W
  ELSE LET c == Closest(idx, q, st.C)
           stop == /\ Cardinality(st.W) >= ef
                   /\ ~Before(idx, q, c, Farthest(idx, q, st.W))
           nbrs == SortByDistance(idx, idx.vectors[c], Neighbors(idx, c, layer))
       IN  IF stop THEN st.W
           ELSE SearchLoop(idx, q, layer, ef, eligible,
                  VisitAll(idx, q, ef, eligible, nbrs,
                           [st EXCEPT !.C = @ \ {c}]))

\* The result set of a search of `layer` entered at ep; only eligible nodes
\* are results, every node is traversed.
SearchLayer(idx, q, ep, layer, ef, eligible) ==
  SearchLoop(idx, q, layer, ef, eligible,
             [C |-> {ep}, W |-> {ep} \cap eligible, V |-> {ep}])

\* The diversity heuristic: candidates in ascending distance to the base
\* vector; one is kept unless it is closer to a kept one than to the base.
RECURSIVE SelectLoop(_, _, _, _, _)
SelectLoop(idx, base, cands, kept, max) ==
  IF cands = <<>> \/ Cardinality(kept) >= max THEN kept
  ELSE LET c == Head(cands)
           ok == \A r \in kept :
                   Distance(idx.vectors[c], idx.vectors[r])
                     >= Distance(idx.vectors[c], base)
       IN  SelectLoop(idx, base, Tail(cands),
                      IF ok THEN kept \cup {c} ELSE kept, max)

SelectNeighbors(idx, base, S, max) ==
  SelectLoop(idx, base, SortByDistance(idx, base, S), {}, max)

(***************************************************************************)
(* The index engine: insertion                                             *)
(***************************************************************************)
Min(a, b) == IF a <= b THEN a ELSE b
Max(a, b) == IF a >= b THEN a ELSE b

\* The neighbour list of nb at a layer once the new node links back to it:
\* appended while there is room, else pruned by the heuristic.
LinkBack(idx, nb, new, layer) ==
  LET cur == idx.links[nb][layer + 1]
  IN  IF Cardinality(cur) < MaxLinks(idx, layer) THEN cur \cup {new}
      ELSE SelectNeighbors(idx, idx.vectors[nb], cur \cup {new},
                           MaxLinks(idx, layer))

\* The candidates of the new node at one layer.
LayerCandidates(idx, new, layer, ep) ==
  SearchLayer(idx, idx.vectors[new], ep, layer, idx.efConstruction,
              Slots(idx) \ {new})

\* Link the new node at one layer, entered at ep.
ConnectLayer(idx, new, layer, ep) ==
  LET W == LayerCandidates(idx, new, layer, ep)
      sel == SelectNeighbors(idx, idx.vectors[new], W, MaxLinks(idx, layer))
  IN  [idx EXCEPT !.links =
        [s \in Slots(idx) |->
           IF s = new THEN [idx.links[s] EXCEPT ![layer + 1] = sel]
           ELSE IF s \in sel
                THEN [idx.links[s] EXCEPT
                        ![layer + 1] = LinkBack(idx, s, new, layer)]
           ELSE idx.links[s]]]

RECURSIVE ConnectDown(_, _, _, _)
ConnectDown(idx, new, layer, ep) ==
  IF layer < 0 THEN idx
  ELSE ConnectDown(ConnectLayer(idx, new, layer, ep), new, layer - 1,
                   Closest(idx, idx.vectors[new],
                           LayerCandidates(idx, new, layer, ep)))

\* The new node in its slot, not linked yet.
Allocate(idx, vec, label, lvl) ==
  [idx EXCEPT !.labels = Append(@, label),
              !.vectors = Append(@, vec),
              !.levels = Append(@, lvl),
              !.links = Append(@, [l \in 1..(lvl + 1) |-> {}])]

\* An update of the entry point that a node of the same layer wins too.
NewEntryPoint_OrEqual(idx, new, lvl) ==
  IF idx.entryPoint = 0 \/ lvl >= idx.levels[idx.entryPoint] THEN new
  ELSE idx.entryPoint
\* The entry point after a node of level lvl went in: replaced only by a
\* node of a strictly higher layer.
NewEntryPoint(idx, new, lvl) ==
  IF idx.entryPoint = 0 \/ lvl > idx.levels[idx.entryPoint] THEN new
  ELSE idx.entryPoint

\* Steps 5 to 7 of an insertion.
Insert(idx, vec, label, lvl) ==
  LET new == NumElements(idx) + 1
      idx1 == Allocate(idx, vec, label, lvl)
      ep == idx.entryPoint
      top == idx.levels[ep]
      start == Descend(idx1, vec, ep, top, lvl)
      idx2 == IF ep = 0 THEN idx1
              ELSE ConnectDown(idx1, new, Min(lvl, top), start)
  IN  [idx2 EXCEPT !.entryPoint = NewEntryPoint(idx, new, lvl)]

(***************************************************************************)
(* The index engine: operations.  Each returns the error kind ("none" on   *)
(* success), the index afterwards and the value.                           *)
(***************************************************************************)
Threw(kind, idx) == [err |-> kind, index |-> idx, out |-> <<>>, dists |-> <<>>]
Returned(idx, out, dists) ==
  [err |-> "none", index |-> idx, out |-> out, dists |-> dists]

RECURSIVE FirstUnused(_, _)
FirstUnused(idx, n) ==
  IF n \in LabelSet(idx) THEN FirstUnused(idx, n + 1) ELSE n
\* The next unused auto-increment label.
NextLabel(idx) == FirstUnused(idx, idx.currentLabel)

\* Index::addItem(vector, id); lvl is the layer the random generator draws.
EngineAddItem(idx, vec, hasId, id, lvl) ==
  LET label == IF hasId THEN id ELSE NextLabel(idx)
      after == Insert(idx, vec, label, lvl)
  IN  IF Len(vec) # idx.numDimensions THEN Threw("DimensionMismatch", idx)
      ELSE IF hasId /\ id \in LabelSet(idx) THEN Threw("DuplicateLabel", idx)
      ELSE IF NumElements(idx) >= idx.maxElements
           THEN Threw("CapacityExceeded", idx)
      ELSE Returned(IF hasId THEN after
                    ELSE [after EXCEPT !.currentLabel = label + 1],
                    <<label>>, <<>>)

\* Index::query(vector, k, queryEf): the k closest live results, ascending.
EngineQuery(idx, q, k, queryEf) ==
  LET ef == Max(IF queryEf = -1 THEN idx.ef ELSE queryEf, k)
      ep == idx.entryPoint
      start == Descend(idx, q, ep, idx.levels[ep], 0)
      W == SearchLayer(idx, q, start, 0, ef, LiveSlots(idx))
      sorted == SortByDistance(idx, q, W)
      found == SubSeq(sorted, 1, Min(k, Len(sorted)))
  IN  IF Len(q) # idx.numDimensions THEN Threw("DimensionMismatch", idx)
      ELSE IF k < 1 THEN Threw("InvalidParameter", idx)
      ELSE IF NumElements(idx) = 0 THEN Threw("EmptyIndexError", idx)
      ELSE Returned(idx,
                    [i \in 1..Len(found) |-> idx.labels[found[i]]],
                    [i \in 1..Len(found) |->
                       Distance(q, idx.vectors[found[i]])])

\* Index::getVector(id): soft-deleted labels stay retrievable.
EngineGetVector(idx, label) ==
  IF label \notin LabelSet(idx) THEN Threw("UnknownLabel", idx)
  ELSE Returned(idx, idx.vectors[SlotOf(idx, label)], <<>>)

\* Index::markDeleted(id): the slot joins the deleted set, nothing else moves.
EngineMarkDeleted(idx, label) ==
  IF label \notin LabelSet(idx) THEN Threw("UnknownLabel", idx)
  ELSE Returned([idx EXCEPT !.deleted = @ \cup {SlotOf(idx, label)}],
                <<>>, <<>>)

\* Index::unmarkDeleted(id).
EngineUnmarkDeleted(idx, label) ==
  IF label \notin LabelSet(idx) THEN Threw("UnknownLabel", idx)
  ELSE Returned([idx EXCEPT !.deleted = @ \ {SlotOf(idx, label)}],
                <<>>, <<>>)

\* Index::resizeIndex(n): only the capacity changes; the backing arrays keep
\* every occupied slot, so n may not be below the number of occupied slots.
EngineResizeIndex(idx, n) ==
  IF n < NumElements(idx) THEN Threw("CapacityExceeded", idx)
  ELSE Returned([idx EXCEPT !.maxElements = n], <<>>, <<>>)

\* Index::getIDs(): the labels of the label map, deleted ones included.
EngineGetIDs(idx) == idx.labels

(***************************************************************************)
(* IndexWrapper: the methods of the binding                                *)
(***************************************************************************)
\* The labels a caller passes: small ones, and two that float cannot tell
\* apart.
SuppliedLabels == {BigLabel, BigLabel + 1}
LabelArgs == {0} \cup SuppliedLabels
MaxK == 2

\* addItem called without an id (std::nullopt).
NoId == -1

\* IndexWrapper::IndexWrapper with only space and numDimensions supplied.
ConstructedIndex ==
  NewIndex("Euclidean", NumDims, DefaultM, DefaultEfConstruction,
           DefaultRandomSeed, DefaultMaxElements, "Float32")

\* An IndexWrapper whose index_ holds no index.
NullEngine == NewIndex("null", 0, 0, 0, 0, 0, "null")

\* The options of the constructor and the values a caller gives them.
CtorKeys == {"space", "numDimensions", "M", "efConstruction", "randomSeed",
             "maxElements", "storageDataType"}
\* The value written for a key the object lacks, which nothing reads.
Absent == [space |-> "Euclidean", numDimensions |-> NumDims, M |-> 16,
           efConstruction |-> 100, randomSeed |-> 7, maxElements |-> 3,
           storageDataType |-> "Float8"]
\* new Index() without an options object.
NoCtorOptions == Absent @@ [present |-> FALSE, keys |-> {}]
\* The arguments of the constructor: an options object with some of the
\* keys, or none.
CtorOptions ==
  { o \in [present : {TRUE}, keys : SUBSET CtorKeys,
           space : {"Euclidean", "Cosine"}, numDimensions : {NumDims},
           M : {16}, efConstruction : {100}, randomSeed : {7},
           maxElements : {3}, storageDataType : {"Float8", "Unknown"}] :
      \A key \in CtorKeys \ o.keys : o[key] = Absent[key] }
    \cup {NoCtorOptions}

\* The value of an option, or its default (the numbers a caller gives are
\* positive, so Int64Value and the conversion to size_t keep them).
Option(o, key, default) == IF Has(o, key) THEN o[key] ELSE default

\* make_shared<TypedIndex<...>>(space, numDimensions, M, efConstruction,
\* maxElements, randomSeed): the arguments bind to the engine's parameters
\* by position.
MakeTypedIndex(a1, a2, a3, a4, a5, a6, storageDataType) ==
  NewIndex(a1, a2, a3, a4, a5, a6, storageDataType)

\* IndexWrapper::IndexWrapper(options)
ConstructCall(o) ==
  LET space == ToSpaceType(o.space)
      numDimensions == Int32Value(o.numDimensions)
      M == Option(o, "M", DefaultM)
      efConstruction == Option(o, "efConstruction", DefaultEfConstruction)
      randomSeed == Option(o, "randomSeed", DefaultRandomSeed)
      maxElements == Option(o, "maxElements", DefaultMaxElements)
      storageDataType ==
        IF Has(o, "storageDataType") THEN ToStorageDataType(o.storageDataType)
        ELSE "Float32"
  IN  IF ~o.present THEN Threw("TypeError", NullEngine)
      ELSE IF ~Has(o, "space") \/ ~Has(o, "numDimensions")
           THEN Threw("TypeError", NullEngine)
      ELSE IF storageDataType \notin StorageDataTypes
           THEN Threw("TypeError", NullEngine)
      ELSE Returned(MakeTypedIndex(space, numDimensions, M, efConstruction,
                                   maxElements, randomSeed, storageDataType),
                    <<>>, <<>>)

\* The getters of the wrapper.
Getters(idx) ==
  [space |-> idx.space, numDimensions |-> idx.numDimensions, M |-> idx.M,
   efConstruction |-> idx.efConstruction, maxElements |-> idx.maxElements,
   storageDataType |-> idx.storageDataType,
   numElements |-> NumElements(idx)]

\* A copy of the neighbour labels that keeps them as integers.
NeighborsAsFloat_Exact(ids) == ids
\* The neighbour labels copied through std::vector<float>.
NeighborsAsFloat(ids) == [i \in 1..Len(ids) |-> ToFloat(ids[i])]

\* An addItem that stores a supplied label although the label map has it.
AddItemCall_Relabels(idx, vec, id, lvl) ==
  IF /\ id # NoId
     /\ id \in LabelSet(idx)
     /\ Len(vec) = idx.numDimensions
     /\ NumElements(idx) < idx.maxElements
  THEN Returned(Insert(idx, vec, id, lvl), <<id>>, <<>>)
  ELSE EngineAddItem(idx, vec, id # NoId, id, lvl)
\* An addItem that grows a full index instead of failing.
AddItemCall_Grows(idx, vec, id, lvl) ==
  LET r == EngineAddItem(idx, vec, id # NoId, id, lvl)
  IN  IF r.err = "CapacityExceeded"
      THEN EngineAddItem([idx EXCEPT !.maxElements = @ + 1],
                         vec, id # NoId, id, lvl)
      ELSE r
\* index_->addItem(vector, id)
AddItemCall(idx, vec, id, lvl) == EngineAddItem(idx, vec, id # NoId, id, lvl)

\* index_->query(queryVector, k, queryEf) and the result object built from it
QueryCall(idx, q, k) ==
  LET r == EngineQuery(idx, q, k, -1)
  IN  [r EXCEPT !.out = NeighborsAsFloat(r.out)]

\* index_->getVector(id)
GetVectorCall(idx, id) == EngineGetVector(idx, id)

\* index_->markDeleted(id)
MarkDeletedCall(idx, id) == EngineMarkDeleted(idx, id)

\* An unmarkDeleted that calls markDeleted.
UnmarkDeletedCall_Marks(idx, id) == EngineMarkDeleted(idx, id)
\* index_->unmarkDeleted(id)
UnmarkDeletedCall(idx, id) == EngineUnmarkDeleted(idx, id)

\* A resize that swallows the engine's refusal and forces the capacity.
ResizeCall_Forced(idx, n) == Returned([idx EXCEPT !.maxElements = n], <<>>, <<>>)
\* index_->resizeIndex(newSize)
ResizeCall(idx, n) == EngineResizeIndex(idx, n)

\* index_->getIDs() copied into an array
GetIdsCall(idx) == EngineGetIDs(idx)

\* Index::getIDsMap: the label map, from each label to its internal index.
EngineGetIDsMap(idx) == [l \in LabelSet(idx) |-> SlotOf(idx, l) - 1]

\* A has that looks only among the points that are not deleted.
HasCall_LiveOnly(idx, id) == \E s \in LiveSlots(idx) : idx.labels[s] = id
\* map.find(id) != map.end() on index_->getIDsMap()
HasCall(idx, id) == id \in DOMAIN EngineGetIDsMap(idx)

\* index_->getIDsMap().size()
GetLengthCall(idx) == Cardinality(DOMAIN EngineGetIDsMap(idx))

\* index_->getMaxElements()
GetMaxElementsCall(idx) == idx.maxElements

\* A maxElements setter that never asks for less than the index holds.
SetMaxElementsCall_Clamped(idx, n) ==
  EngineResizeIndex(idx, Max(n, NumElements(idx)))
\* index.maxElements = n: index_->resizeIndex(newSize)
SetMaxElementsCall(idx, n) == EngineResizeIndex(idx, n)

(***************************************************************************)
(* Serialization: the engine's save and load, toBuffer and fromBuffer.     *)
(* A stream is the sequence of the fields written, one number each:        *)
(*   [metadata header][vector block][graph adjacency block][label map]     *)
(* The header opens with a magic field and the format version; a stream    *)
(* that does not is a legacy one.                                          *)
(***************************************************************************)
Magic == 0 - 1
FormatVersion == 1
\* The fields of the header that tag the stream: magic, version, space,
\* storage type, dimensionality.
TagLen == 5
\* The fields after the tag: M, efConstruction, capacity, count, entry point.
ParamLen == 5

\* The enumerators in the order of their numbers.
SpaceCodes == <<"Euclidean", "InnerProduct", "Cosine">>
StorageCodes == <<"Float8", "Float32", "E4M3">>
CodeOf(names, name) == (CHOOSE i \in 1..Len(names) : names[i] = name) - 1
NameOf(names, code) ==
  IF code + 1 \in 1..Len(names) THEN names[code + 1] ELSE "Unknown"

RECURSIVE Flatten(_)
Flatten(ss) == IF ss = <<>> THEN <<>> ELSE Head(ss) \o Flatten(Tail(ss))

RECURSIVE Ascending(_)
Ascending(S) ==
  IF S = {} THEN <<>>
  ELSE LET m == CHOOSE x \in S : \A y \in S : x <= y
       IN  <<m>> \o Ascending(S \ {m})

\* A neighbour list on the stream: its length, then the internal indices.
ListWords(S) ==
  LET a == Ascending(S) IN <<Len(a)>> \o [i \in 1..Len(a) |-> a[i] - 1]

\* A node on the stream: level, deleted mark, one list per layer.
NodeWords(idx, s) ==
  <<idx.levels[s], IF s \in idx.deleted THEN 1 ELSE 0>>
    \o Flatten([l \in 1..(idx.levels[s] + 1) |-> ListWords(idx.links[s][l])])

\* Index::saveIndex(outputStream)
EngineSaveIndex(idx) ==
  LET n == NumElements(idx)
      tag == <<Magic, FormatVersion, CodeOf(SpaceCodes, idx.space),
               CodeOf(StorageCodes, idx.storageDataType), idx.numDimensions>>
      params == <<idx.M, idx.efConstruction, idx.maxElements, n,
                  idx.entryPoint - 1>>
      vectorBlock == Flatten([s \in 1..n |-> idx.vectors[s]])
      graphBlock == Flatten([s \in 1..n |-> NodeWords(idx, s)])
  IN  tag \o params \o vectorBlock \o graphBlock \o idx.labels

\* The field at position p of a stream, or a value no field has.
At(b, p) == IF p \in 1..Len(b) THEN b[p] ELSE 0 - 2

\* voyager::Metadata::loadFromStream on a stream of fields.
ReadMetadata(b) ==
  IF /\ Len(b) >= TagLen
     /\ b[1] = Magic
     /\ b[2] = FormatVersion
  THEN [kind |-> "modern", space |-> NameOf(SpaceCodes, b[3]),
        numDimensions |-> b[5],
        storageDataType |-> NameOf(StorageCodes, b[4])]
  ELSE [kind |-> "legacy", space |-> "null", numDimensions |-> 0,
        storageDataType |-> "null"]

\* One neighbour list read at position p.
ReadList(b, p) ==
  LET n == At(b, p)
  IN  [ok |-> n >= 0 /\ p + n <= Len(b),
       pos |-> p + n + 1,
       set |-> {At(b, p + i) + 1 : i \in 1..n}]

RECURSIVE ReadLayers(_, _, _)
ReadLayers(b, p, left) ==
  IF left <= 0 THEN [ok |-> TRUE, pos |-> p, lists |-> <<>>]
  ELSE LET l == ReadList(b, p)
       IN  IF ~l.ok THEN [ok |-> FALSE, pos |-> p, lists |-> <<>>]
           ELSE LET rest == ReadLayers(b, l.pos, left - 1)
                IN  [ok |-> rest.ok, pos |-> rest.pos,
                     lists |-> <<l.set>> \o rest.lists]

NoNodes(p, ok) ==
  [ok |-> ok, pos |-> p, levels |-> <<>>, marks |-> <<>>, links |-> <<>>]

RECURSIVE ReadNodes(_, _, _)
ReadNodes(b, p, left) ==
  IF left <= 0 THEN NoNodes(p, TRUE)
  ELSE LET lvl == At(b, p)
           layers == ReadLayers(b, p + 2, lvl + 1)
       IN  IF lvl < 0 \/ At(b, p + 1) \notin {0, 1} \/ ~layers.ok
           THEN NoNodes(p, FALSE)
           ELSE LET rest == ReadNodes(b, layers.pos, left - 1)
                IN  [ok |-> rest.ok, pos |-> rest.pos,
                     levels |-> <<lvl>> \o rest.levels,
                     marks |-> <<At(b, p + 1)>> \o rest.marks,
                     links |-> <<layers.lists>> \o rest.links]

\* TypedIndex<...>(inputStream, space, numDimensions): the index read from
\* the stream after its tag, if it has one.
EngineLoadIndex(b, space, numDimensions, storageDataType) ==
  LET start == IF ReadMetadata(b).kind = "modern" THEN TagLen + 1 ELSE 1
      n == At(b, start + 3)
      vstart == start + ParamLen
      gstart == vstart + n * numDimensions
      nodes == ReadNodes(b, gstart, n)
      ok == /\ n >= 0
            /\ numDimensions > 0
            /\ gstart <= Len(b) + 1
            /\ nodes.ok
            /\ nodes.pos + n = Len(b) + 1
      fresh == NewIndex(space, numDimensions, At(b, start), At(b, start + 1),
                        DefaultRandomSeed, At(b, start + 2), storageDataType)
  IN  IF ~ok THEN Threw("CorruptData", NullEngine)
      ELSE Returned(
             [fresh EXCEPT
                !.labels = [s \in 1..n |-> b[nodes.pos + s - 1]],
                !.vectors = [s \in 1..n |->
                               [j \in 1..numDimensions |->
                                  b[vstart + (s - 1) * numDimensions + j - 1]]],
                !.levels = nodes.levels,
                !.links = nodes.links,
                !.deleted = {s \in 1..n : nodes.marks[s] = 1},
                !.entryPoint = At(b, start + 4) + 1,
                !.currentLabel = n],
             <<>>, <<>>)

\* A toBuffer that loses the last field of the stream.
ToBufferCall_Truncated(idx) ==
  LET bytes == EngineSaveIndex(idx)
  IN  Returned(idx, SubSeq(bytes, 1, Len(bytes) - 1), <<>>)
\* index_->saveIndex into a MemoryOutputStream, copied into a Buffer.
ToBufferCall(idx) == Returned(idx, EngineSaveIndex(idx), <<>>)

\* IndexWrapper::FromBuffer on the fields of a buffer: the decision of the
\* loader first, then the engine's read; the wrapper built from the dummy
\* options gets the loaded index as its index_.
FromBufferCall(b, o) ==
  LET r == FromBufferResult(ReadMetadata(b), o)
  IN  IF r.err # "none" THEN Threw(r.err, NullEngine)
      ELSE EngineLoadIndex(b, r.index.space, r.index.numDimensions,
                           r.index.storageDataType)

(***************************************************************************)
(* addItems: the batch and the worker pool                                 *)
(***************************************************************************)
MaxBatch == 2        \* the rows of a batch
\* The M of the index a batch goes into: small, so that lists overflow.
SmallM == 2

\* The worker threads of the pool (numThreads of them).
Workers == {"w1", "w2"}
NoWorker == "none"
\* The slots of an index that held two elements before the batch went in.
NodeSlots == 1..(MaxBatch + 2)

\* The rows of the batch: pairwise different vectors.
BatchVectors == [i \in 1..MaxBatch |-> Unit(i)]

\* No addItems call in progress.
NoBatch ==
  [vectors |-> <<>>, next |-> 1, labels |-> <<>>,
   err |-> "none", returned |-> FALSE, result |-> <<>>, prev |-> 0,
   first |-> 0]

\* A worker between two rows.
IdleWorker ==
  [pc |-> "idle", row |-> 0, new |-> 0, layer |-> 0, ep |-> 0, from |-> 0,
   todo |-> {}, nb |-> 0, pending |-> {}]

BatchIdle ==
  /\ batch = NoBatch
  /\ workers = [w \in Workers |-> IdleWorker]
  /\ locks = [s \in NodeSlots |-> NoWorker]
  /\ torn = {}
  /\ tornRead = FALSE

IndexInit == index_ = ConstructedIndex /\ BatchIdle

\* The arguments the model's callers pass.
VectorArgs == Points \cup {ShortVector}
IdArgs == SuppliedLabels \cup {NoId}
KArgs == 1..MaxK
SizeArgs == 0..MaxCapacity

\* addItem(vector[, id]): the index afterwards; the label or the error is
\* AddItemCall's value.
AddItem ==
  \E vec \in VectorArgs, id \in IdArgs, lvl \in 0..MaxLevel :
    /\ index_' = AddItemCall(index_, vec, id, lvl).index
    /\ UNCHANGED <<loadVars, batchVars>>

\* query(vector[, k]) with a single vector; ef is left to the index.  The
\* index is only read: the neighbors and distances are QueryCall's value.
Query ==
  \E q \in Points, k \in KArgs :
    /\ QueryCall(index_, q, k).err \in {"none", "EmptyIndexError"}
    /\ UNCHANGED vars

\* getVector(id): the index is only read.
GetVector ==
  \E id \in LabelArgs :
    /\ GetVectorCall(index_, id).err \in {"none", "UnknownLabel"}
    /\ UNCHANGED vars

\* markDeleted(id)
MarkDeleted ==
  \E id \in LabelArgs :
    /\ index_' = MarkDeletedCall(index_, id).index
    /\ UNCHANGED <<loadVars, batchVars>>

\* unmarkDeleted(id)
UnmarkDeleted ==
  \E id \in LabelArgs :
    /\ index_' = UnmarkDeletedCall(index_, id).index
    /\ UNCHANGED <<loadVars, batchVars>>

\* resize(newSize)
Resize ==
  \E n \in SizeArgs :
    /\ index_' = ResizeCall(index_, n).index
    /\ UNCHANGED <<loadVars, batchVars>>

\* index.maxElements = newSize
SetMaxElements ==
  \E n \in SizeArgs :
    /\ index_' = SetMaxElementsCall(index_, n).index
    /\ UNCHANGED <<loadVars, batchVars>>

\* index.maxElements read: the index is only read.
GetMaxElements ==
  /\ GetMaxElementsCall(index_) >= 0
  /\ UNCHANGED vars

\* has(id): the index is only read.
HasId ==
  \E id \in LabelArgs :
    /\ HasCall(index_, id) \in BOOLEAN
    /\ UNCHANGED vars

\* length: the index is only read.
GetLength ==
  /\ GetLengthCall(index_) >= 0
  /\ UNCHANGED vars

\* toBuffer(): the index is only read.
ToBuffer ==
  /\ ToBufferCall(index_).err = "none"
  /\ UNCHANGED vars

\* index.ids: the index is only read.
GetIds ==
  /\ Len(GetIdsCall(index_)) = NumElements(index_)
  /\ UNCHANGED vars

Next ==
  \/ AddItem
  \/ Query
  \/ GetVector
  \/ MarkDeleted
  \/ UnmarkDeleted
  \/ Resize
  \/ SetMaxElements
  \/ GetMaxElements
  \/ GetIds
  \/ HasId
  \/ GetLength
  \/ ToBuffer

Init ==
  /\ IndexInit
  /\ stream = CHOOSE x \in LegacyStreams : TRUE
  /\ options = NoOptions
  /\ loaded = NotLoaded
  /\ StreamIdle

Spec == Init /\ [][Next]_vars

(***************************************************************************)
(* The batch specification: one addItems call without ids, its rows        *)
(* inserted by the worker pool into an index that holds one element        *)
(***************************************************************************)
\* A node's lock can be taken: nobody holds it.
NodeLockFree_Ignored(lk, s) == TRUE
NodeLockFree(lk, s) == lk[s] = NoWorker

\* The row counter once a worker took a row.
AfterTake_Stuck(next) == next
AfterTake(next) == next + 1

\* The array addItems returns: resultIds copied in order.
ResultArray(ids) == [i \in 1..Len(ids) |-> ids[i]]

\* The index a batch goes into: constructed with M and maxElements, then two
\* addItem calls whose nodes were drawn layer lvl.
BatchIndex(cap, lvl) ==
  LET empty == NewIndex("Euclidean", NumDims, SmallM, DefaultEfConstruction,
                        DefaultRandomSeed, cap, "Float32")
      one == AddItemCall(empty, Unit(NumDims), NoId, lvl).index
  IN  AddItemCall(one, Unit(NumDims - 1), NoId, lvl).index

\* addItems(vectors, [], numThreads) as the pool starts on it.
StartedBatch(idx) ==
  [NoBatch EXCEPT !.vectors = BatchVectors,
                  !.labels = [i \in 1..MaxBatch |-> NoId],
                  !.prev = NumElements(idx),
                  !.first = idx.currentLabel]

BatchInit ==
  /\ \E lvl \in 0..MaxLevel : index_ = BatchIndex(MaxBatch + 2, lvl)
  /\ batch = StartedBatch(index_)
  /\ workers = [w \in Workers |-> IdleWorker]
  /\ locks = [s \in NodeSlots |-> NoWorker]
  /\ torn = {}
  /\ tornRead = FALSE
  /\ stream = CHOOSE x \in LegacyStreams : TRUE
  /\ options = NoOptions
  /\ loaded = NotLoaded
  /\ StreamIdle

\* A worker of the pool takes the next row.
TakeRow(w) ==
  /\ workers[w].pc = "idle"
  /\ batch.err = "none"
  /\ batch.next <= Len(batch.vectors)
  /\ workers' = [workers EXCEPT
                   ![w] = [IdleWorker EXCEPT !.pc = "reserve",
                                             !.row = batch.next]]
  /\ batch' = [batch EXCEPT !.next = AfterTake(@)]
  /\ UNCHANGED <<loadVars, index_, locks, torn, tornRead>>

\* Steps 1 to 4 of the row's insertion in one step: the vector is checked,
\* the label and the slot are taken, the layer is drawn, the capacity is
\* checked.  The entry point is read for the descent.
Reserve(w) ==
  /\ workers[w].pc = "reserve"
  /\ \E lvl \in 0..MaxLevel :
       LET me == workers[w]
           vec == batch.vectors[me.row]
           label == NextLabel(index_)
           new == NumElements(index_) + 1
           ep == index_.entryPoint
           kind == IF Len(vec) # index_.numDimensions
                   THEN "DimensionMismatch"
                   ELSE IF NumElements(index_) >= index_.maxElements
                        THEN "CapacityExceeded"
                   ELSE "none"
       IN  IF kind # "none"
           THEN /\ batch' = [batch EXCEPT !.err = kind]
                /\ workers' = [workers EXCEPT ![w] = IdleWorker]
                /\ UNCHANGED index_
           ELSE /\ index_' = [Allocate(index_, vec, label, lvl)
                                EXCEPT !.currentLabel = label + 1]
                /\ batch' = [batch EXCEPT !.labels[me.row] = label]
                /\ workers' = [workers EXCEPT
                     ![w] = [me EXCEPT
                               !.pc = "link",
                               !.new = new,
                               !.layer = Min(lvl, index_.levels[ep]),
                               !.ep = ep,
                               !.from = index_.levels[ep]]]
  /\ UNCHANGED <<loadVars, locks, torn, tornRead>>

\* Steps 5 and 6 at one layer, the reading half: the descent and the search
\* read the lists of the nodes they pass, each under that node's lock, and the
\* new node's own list is written.
Link(w) ==
  /\ workers[w].pc = "link"
  /\ \A s \in Slots(index_) : NodeLockFree(locks, s)
  /\ LET me == workers[w]
         vec == index_.vectors[me.new]
         start == Descend(index_, vec, me.ep, me.from, me.layer)
         W == LayerCandidates(index_, me.new, me.layer, start)
         sel == SelectNeighbors(index_, vec, W, MaxLinks(index_, me.layer))
     IN  /\ index_' = [index_ EXCEPT !.links[me.new][me.layer + 1] = sel]
         /\ workers' = [workers EXCEPT
              ![w] = [me EXCEPT !.pc = "back",
                                !.todo = sel,
                                !.ep = Closest(index_, vec, W),
                                !.from = me.layer - 1]]
  /\ tornRead' = (tornRead \/ torn # {})
  /\ UNCHANGED <<loadVars, batch, locks, torn>>

\* Step 6, linking back: the worker takes the lock of the next selected
\* neighbour, reads its list, computes the list with the new node in it
\* (pruned when it overflows) and starts to write.
BackBegin(w) ==
  /\ workers[w].pc = "back"
  /\ LET me == workers[w]
         nb == CHOOSE s \in me.todo : \A t \in me.todo : s <= t
     IN  /\ NodeLockFree(locks, nb)
         /\ locks' = [locks EXCEPT ![nb] = w]
         /\ torn' = torn \cup {nb}
         /\ workers' = [workers EXCEPT
              ![w] = [me EXCEPT
                        !.pc = "write",
                        !.nb = nb,
                        !.pending = LinkBack(index_, nb, me.new, me.layer)]]
  /\ UNCHANGED <<loadVars, index_, batch, tornRead>>

\* The write of the neighbour's list completes and its lock is released.
BackEnd(w) ==
  /\ workers[w].pc = "write"
  /\ LET me == workers[w]
         rest == me.todo \ {me.nb}
     IN  /\ index_' = [index_ EXCEPT
                         !.links[me.nb][me.layer + 1] = me.pending]
         /\ locks' = [locks EXCEPT ![me.nb] = NoWorker]
         /\ torn' = torn \ {me.nb}
         /\ workers' = [workers EXCEPT
              ![w] = [me EXCEPT
                        !.todo = rest,
                        !.nb = 0,
                        !.pending = {},
                        !.pc = IF rest # {} THEN "back"
                               ELSE IF me.layer > 0 THEN "link"
                               ELSE "entry",
                        !.layer = IF rest = {} /\ me.layer > 0
                                  THEN me.layer - 1 ELSE me.layer]]
  /\ UNCHANGED <<loadVars, batch, tornRead>>

\* Step 7, under the coarse lock: a node of a strictly higher layer becomes
\* the entry point.
SetEntry(w) ==
  /\ workers[w].pc = "entry"
  /\ LET new == workers[w].new
     IN  index_' = [index_ EXCEPT
                      !.entryPoint =
                        NewEntryPoint(index_, new, index_.levels[new])]
  /\ workers' = [workers EXCEPT ![w] = IdleWorker]
  /\ UNCHANGED <<loadVars, batch, locks, torn, tornRead>>

\* The pool has ended: addItems returns the labels or throws.
AddItemsReturn ==
  /\ ~batch.returned
  /\ \A w \in Workers : workers[w].pc = "idle"
  /\ batch.err # "none" \/ batch.next > Len(batch.vectors)
  /\ batch' = [batch EXCEPT
                 !.returned = TRUE,
                 !.result = IF batch.err = "none"
                            THEN ResultArray(batch.labels) ELSE <<>>]
  /\ UNCHANGED <<loadVars, index_, workers, locks, torn, tornRead>>

\* A query of the engine that runs while the pool inserts: its search reads
\* lists under the nodes' locks.
ConcurrentQuery ==
  /\ ~batch.returned
  /\ \A s \in Slots(index_) : NodeLockFree(locks, s)
  /\ tornRead' = (tornRead \/ torn # {})
  /\ UNCHANGED <<loadVars, index_, batch, workers, locks, torn>>

BatchNext ==
  \/ \E w \in Workers : TakeRow(w)
  \/ \E w \in Workers : Reserve(w)
  \/ \E w \in Workers : Link(w)
  \/ \E w \in Workers : BackBegin(w)
  \/ \E w \in Workers : BackEnd(w)
  \/ \E w \in Workers : SetEntry(w)
  \/ AddItemsReturn
  \/ ConcurrentQuery

SpecBatch == BatchInit /\ [][BatchNext]_vars

(***************************************************************************)
(* The load specification: one load call on a stream and an options object *)
(***************************************************************************)
LoadInit ==
  /\ stream \in Streams
  /\ options \in AllOptions
  /\ loaded = NotLoaded
  /\ StreamIdle
  /\ IndexInit

LoadIndex ==
  /\ loaded.via = "none"
  /\ loaded' = LoadIndexResult(stream, options)
  /\ UNCHANGED <<stream, options, input, got, indexVars, batchVars>>

FromBuffer ==
  /\ loaded.via = "none"
  /\ loaded' = FromBufferResult(stream, options)
  /\ UNCHANGED <<stream, options, input, got, indexVars, batchVars>>

LoadNext == LoadIndex \/ FromBuffer

SpecLoad == LoadInit /\ [][LoadNext]_vars

(***************************************************************************)
(* One construction: new Index(options)                                    *)
(***************************************************************************)
NewInit ==
  /\ options \in CtorOptions
  /\ index_ = NullEngine
  /\ BatchIdle
  /\ stream = CHOOSE x \in LegacyStreams : TRUE
  /\ loaded = NotLoaded
  /\ StreamIdle

New ==
  /\ index_ = NullEngine
  /\ index_' = ConstructCall(options).index
  /\ UNCHANGED <<loadVars, batchVars>>

NewNext == New

SpecNew == NewInit /\ [][NewNext]_vars

(***************************************************************************)
(* A sequence of calls on one MemoryInputStream                            *)
(***************************************************************************)
DataValues == UNION {[1..n -> Bytes] : n \in 0..MaxData}
\* The arguments of read and setPosition: negative, inside, past the end.
StreamArgs == (0 - 1)..(MaxData + 1)

StreamInit ==
  /\ \E d \in DataValues : input = MemoryInputStream(d)
  /\ got = NoCall
  /\ stream = CHOOSE x \in LegacyStreams : TRUE
  /\ options = NoOptions
  /\ loaded = NotLoaded
  /\ IndexInit

\* The stream and the record of the call after a call returned r.
Called(op, arg, r) ==
  /\ input' = r.input
  /\ got' = [op |-> op, arg |-> arg, ret |-> r.ret, ok |-> r.ok,
             bytes |-> r.bytes, threw |-> r.threw]
  /\ UNCHANGED <<stream, options, loaded, indexVars, batchVars>>

CallRead == \E n \in StreamArgs : Called("read", n, read(input, n))
CallSetPosition ==
  \E p \in StreamArgs : Called("setPosition", p, setPosition(input, p))
CallPeek == Called("peek", 0, peek(input))
CallIsExhausted == Called("isExhausted", 0, isExhausted(input))
CallGetPosition == Called("getPosition", 0, getPosition(input))
CallGetTotalLength == Called("getTotalLength", 0, getTotalLength(input))

StreamNext ==
  \/ CallRead
  \/ CallSetPosition
  \/ CallPeek
  \/ CallIsExhausted
  \/ CallGetPosition
  \/ CallGetTotalLength

SpecStream == StreamInit /\ [][StreamNext]_vars

(***************************************************************************)
(* Claims about loading                                                    *)
(***************************************************************************)
\* A supplied option that differs from the value the header stores.
SuppliedConflict(s, o) ==
  /\ o.present
  /\ \/ "storageDataType" \in o.keys /\ o.storageDataType # s.storageDataType
     \/ "space" \in o.keys /\ o.space # s.space
     \/ "numDimensions" \in o.keys /\ o.numDimensions # s.numDimensions

\* C1: when the stream starts with a metadata header, loadIndex and
\* fromBuffer fail with ParameterMismatch and return no index whenever a
\* supplied storageDataType, space or numDimensions differs from the stored
\* value; a load that succeeds has the stored values, and every supplied
\* option equals them.
C1_ConflictIsParameterMismatch ==
  (loaded.via # "none" /\ stream.kind = "modern") =>
    /\ SuppliedConflict(stream, options) =>
          loaded.err = "ParameterMismatch" /\ loaded.index = NullIndex
    /\ loaded.err = "none" =>
          /\ ~SuppliedConflict(stream, options)
          /\ loaded.index.space = stream.space
          /\ loaded.index.numDimensions = stream.numDimensions
          /\ loaded.index.storageDataType = stream.storageDataType

\* C1 witness: a load of a self-describing stream refused because only the
\* supplied numDimensions differs from the header.
C1_Witness ==
  /\ loaded.via = "fromBuffer"
  /\ stream.kind = "modern"
  /\ options.keys = OptionKeys
  /\ options.space = stream.space
  /\ options.storageDataType = stream.storageDataType
  /\ options.numDimensions # stream.numDimensions
  /\ loaded.err = "ParameterMismatch"

\* C2: a load of a header-less stream with any one of space, numDimensions
\* and storageDataType omitted fails with MissingParameters and produces no
\* index.
C2_LegacyNeedsAllThree ==
  (loaded.via # "none" /\ stream.kind = "legacy"
     /\ (~options.present \/ options.keys # OptionKeys)) =>
    loaded.err = "MissingParameters" /\ loaded.index = NullIndex

\* C3: a load of a header-less stream without a numDimensions option fails
\* with MissingParameters and builds no index, whatever the other options
\* are (an unknown storageDataType included).
C3_LegacyWithoutDimsFails ==
  (loaded.via # "none" /\ stream.kind = "legacy"
     /\ ~Has(options, "numDimensions")) =>
    loaded.err = "MissingParameters" /\ loaded.index = NullIndex

\* C3 witness: a header-less buffer loaded with space and storageDataType
\* but no numDimensions is refused.
C3_Witness ==
  /\ loaded.via = "fromBuffer"
  /\ stream.kind = "legacy"
  /\ options.present
  /\ options.keys = {"space", "storageDataType"}
  /\ loaded.err = "MissingParameters"

(***************************************************************************)
(* Claims about the index: soft deletion, query, resize, capacity          *)
(***************************************************************************)
Range(f) == {f[i] : i \in 1..Len(f)}
DeletedLabels(idx) == {idx.labels[s] : s \in idx.deleted}
LiveLabels(idx) == {idx.labels[s] : s \in LiveSlots(idx)}
LiveCount(idx) == Cardinality(LiveSlots(idx))

\* C4: whatever addItem, markDeleted, unmarkDeleted and resize calls came
\* before, a label that is marked deleted is in the neighbors of no query,
\* while getVector of it succeeds and ids contains it.
C4_DeletedHiddenButRetrievable ==
  \A L \in DeletedLabels(index_) :
    /\ \A q \in Points, k \in KArgs :
         L \notin Range(QueryCall(index_, q, k).out)
    /\ GetVectorCall(index_, L).err = "none"
    /\ L \in Range(GetIdsCall(index_))

\* C5: markDeleted(L) of a live label followed by unmarkDeleted(L) both
\* succeed and give back the index as it was: L is live and a query with its
\* vector answers as before, getVector(L) returns the same vector, the label
\* map, the capacity and the links are those from before the pair of calls.
C5_MarkUnmarkRoundTrip ==
  \A L \in LiveLabels(index_) :
    LET marked == MarkDeletedCall(index_, L)
        back == UnmarkDeletedCall(marked.index, L)
    IN  /\ marked.err = "none"
        /\ L \in DeletedLabels(marked.index)
        /\ back.err = "none"
        /\ L \in LiveLabels(back.index)
        /\ GetVectorCall(back.index, L) = GetVectorCall(index_, L)
        /\ back.index.labels = index_.labels
        /\ back.index.maxElements = index_.maxElements
        /\ back.index.links = index_.links
        /\ back.index = index_
        /\ LET v == GetVectorCall(index_, L).out
           IN  QueryCall(back.index, v, MaxK) = QueryCall(index_, v, MaxK)

\* An index of two points, one of them deleted, whose unmarkDeleted brings it
\* back as the nearest neighbour of its own vector.
C5_Witness ==
  /\ NumElements(index_) = 2
  /\ \E L \in DeletedLabels(index_) :
       LET back == UnmarkDeletedCall(index_, L).index
           v == GetVectorCall(index_, L).out
       IN  /\ L < BigLabel
           /\ LiveCount(index_) = 1
           /\ L \notin Range(QueryCall(index_, v, MaxK).out)
           /\ QueryCall(back, v, 1).out = <<L>>
           /\ MarkDeletedCall(back, L).index = index_

\* C6: query(v, k) returns the labels of the k closest live points, or of all
\* live points when fewer than k are live, in ascending distance, with their
\* distances.
C6_QueryReturnsClosestLive ==
  \A q \in Points, k \in KArgs :
    LET r == QueryCall(index_, q, k)
        live == LiveSlots(index_)
        n == Min(k, Cardinality(live))
    IN  NumElements(index_) > 0 =>
          /\ r.err = "none"
          /\ Len(r.out) = n
          /\ Len(r.dists) = n
          /\ \A i \in 1..n :
               /\ r.out[i] \in LiveLabels(index_)
               /\ r.dists[i] =
                    Distance(q, index_.vectors[SlotOf(index_, r.out[i])])
          /\ \A i, j \in 1..n : i < j =>
               r.dists[i] <= r.dists[j] /\ r.out[i] # r.out[j]
          /\ \A s \in live :
               index_.labels[s] \notin Range(r.out) =>
                 Distance(q, index_.vectors[s]) >= r.dists[n]

\* The same points and vectors after a resize, whatever it answered.
ResizeKeepsPoints(idx, r) ==
  /\ r.index.labels = idx.labels
  /\ r.index.vectors = idx.vectors
  /\ r.index.deleted = idx.deleted
  /\ r.index.links = idx.links

C10_AddItemAtCapacity ==
  NumElements(index_) = index_.maxElements =>
    \A vec \in VectorArgs, id \in IdArgs, lvl \in 0..MaxLevel :
      LET r == AddItemCall(index_, vec, id, lvl)
      IN  /\ r.err # "none"
          /\ r.index = index_
          /\ (Len(vec) = index_.numDimensions /\ id \notin LabelSet(index_))
               => r.err = "CapacityExceeded"

\* A full index of two points, one of them deleted, that refuses a third.
C10_Witness ==
  /\ NumElements(index_) = 2
  /\ index_.maxElements = 2
  /\ index_.deleted # {}
  /\ AddItemCall(index_, Unit(1), NoId, 0).err = "CapacityExceeded"
  /\ AddItemCall(index_, Unit(1), BigLabel, 0).index = index_

\* C11: addItem with a supplied label that maps to a live point fails and
\* leaves the index as it was, with DuplicateLabel when the vector has the
\* right length; and no two internal indices that are not deleted carry the
\* same label.
C11_DuplicateLabelRefused ==
  /\ \A id \in SuppliedLabels \cap LiveLabels(index_) :
       \A vec \in VectorArgs, lvl \in 0..MaxLevel :
         LET r == AddItemCall(index_, vec, id, lvl)
         IN  /\ r.err # "none"
             /\ r.index = index_
             /\ Len(vec) = index_.numDimensions => r.err = "DuplicateLabel"
  /\ \A s, t \in LiveSlots(index_) :
       s # t => index_.labels[s] # index_.labels[t]

\* An index with room left that holds a live point under a supplied label
\* and refuses a second point under it.
C11_Witness ==
  /\ NumElements(index_) = 1
  /\ index_.maxElements = 2
  /\ BigLabel \in LiveLabels(index_)
  /\ AddItemCall(index_, Unit(2), BigLabel, 0).err = "DuplicateLabel"
  /\ AddItemCall(index_, Unit(2), BigLabel + 1, 0).err = "none"

\* C12: the index that fromBuffer, called without options, loads from the
\* bytes toBuffer wrote has the ids, the stored vectors, the space, the
\* dimensionality, the storage type, M, efConstruction and the capacity of
\* the index that was saved; toBuffer leaves that index as it was.
C12_SaveLoadRoundTrip ==
  LET saved == ToBufferCall(index_)
      back == FromBufferCall(saved.out, NoOptions)
  IN  /\ saved.err = "none"
      /\ saved.index = index_
      /\ back.err = "none"
      /\ GetIdsCall(back.index) = GetIdsCall(index_)
      /\ back.index.vectors = index_.vectors
      /\ back.index.space = index_.space
      /\ back.index.numDimensions = index_.numDimensions
      /\ back.index.storageDataType = index_.storageDataType
      /\ back.index.M = index_.M
      /\ back.index.efConstruction = index_.efConstruction
      /\ back.index.maxElements = index_.maxElements

\* An index of two linked points on different layers, one of them marked
\* deleted, one under a supplied label, that is saved and loaded back.
C12_Witness ==
  /\ NumElements(index_) = 2
  /\ index_.deleted # {}
  /\ LiveSlots(index_) # {}
  /\ index_.levels[1] # index_.levels[2]
  /\ index_.links[1][1] # {}
  /\ LabelSet(index_) \cap SuppliedLabels # {}
  /\ ReadMetadata(ToBufferCall(index_).out).kind = "modern"
  /\ FromBufferCall(ToBufferCall(index_).out, NoOptions).index.labels
       = index_.labels

\* C16: what a load call returned is what the other loader returns for the
\* same stream and the same options: the same error kind, or an index of
\* the same space, dimensionality and storage type.
C16_LoadersAgree ==
  LET other == IF loaded.via = "loadIndex"
               THEN FromBufferResult(stream, options)
               ELSE LoadIndexResult(stream, options)
  IN  loaded.via # "none" =>
        /\ loaded.err = other.err
        /\ loaded.err = "none" => loaded.index = other.index

(***************************************************************************)
(* Claims about the constructor                                            *)
(***************************************************************************)
\* C15: the index a constructor call has built is empty and its getters
\* report, for every option, the value supplied or else the default M = 12,
\* efConstruction = 200, maxElements = 1, storageDataType = Float32; its
\* random generator is seeded with the value supplied or else 1.
C15_DefaultsAndPrecedence ==
  index_ # NullEngine =>
    /\ ConstructCall(options).err = "none"
    /\ Getters(index_) =
         [space |-> options.space, numDimensions |-> options.numDimensions,
          M |-> Option(options, "M", 12),
          efConstruction |-> Option(options, "efConstruction", 200),
          maxElements |-> Option(options, "maxElements", 1),
          storageDataType |->
            Option(options, "storageDataType", "Float32"),
          numElements |-> 0]
    /\ index_.randomSeed = Option(options, "randomSeed", 1)

(***************************************************************************)
(* Claims about the MemoryInputStream                                      *)
(***************************************************************************)
\* C14: peek returns the value of the four bytes at the position and leaves
\* the stream as it was, so that getPosition is the same before and after
\* and a read of four bytes that follows copies out the bytes of that
\* value; with fewer than four bytes left it throws, the stream unchanged.
C14_PeekKeepsPosition ==
  LET r == peek(input)
      next == read(r.input, PeekSize)
  IN  /\ r.input = input
      /\ getPosition(r.input).ret = getPosition(input).ret
      /\ r.threw <=> Len(input.data) - input.position < PeekSize
      /\ ~r.threw =>
           /\ next.ret = PeekSize
           /\ r.ret = Word32(next.bytes)
           /\ next.bytes = SubSeq(input.data, input.position + 1,
                                  input.position + PeekSize)

\* A peek in the middle of the data has returned a value.
C14_Witness ==
  /\ got.op = "peek"
  /\ ~got.threw
  /\ got.ret > 0
  /\ input.position > 0
  /\ input.position + PeekSize = Len(input.data)

\* C17: after any calls the position lies in 0..length; read(buffer, n)
\* returns min(n, length - position), advances the position by that count
\* when it is positive and copies out the bytes it passes, and otherwise
\* leaves the position; isExhausted holds exactly at position = length.
C17_ReadWithinBounds ==
  LET length == getTotalLength(input).ret
      position == getPosition(input).ret
  IN  /\ length = Len(input.data)
      /\ 0 <= position /\ position <= length
      /\ isExhausted(input).ok <=> position = length
      /\ \A n \in StreamArgs :
           LET r == read(input, n)
           IN  /\ r.ret = Min(n, length - position)
               /\ ~r.threw
               /\ r.input.data = input.data
               /\ r.input.position
                    = IF r.ret > 0 THEN position + r.ret ELSE position
               /\ Len(r.bytes) = IF r.ret > 0 THEN r.ret ELSE 0
               /\ \A i \in 1..Len(r.bytes) :
                    r.bytes[i] = input.data[position + i]

\* A read in the middle of the data that asked for more bytes than were
\* left, got the rest and exhausted the stream.
C17_Witness ==
  /\ got.op = "read"
  /\ got.ret > 0
  /\ got.arg > got.ret
  /\ Len(got.bytes) < Len(input.data)
  /\ isExhausted(input).ok

\* C18: setPosition(p) returns false and leaves the position when p < 0 or
\* p > length; for p in 0..length it returns true and the position is p;
\* after a seek to the end the stream is exhausted.
C18_SetPositionRange ==
  \A p \in StreamArgs :
    LET r == setPosition(input, p)
        length == getTotalLength(input).ret
    IN  /\ r.input.data = input.data
        /\ ~r.threw
        /\ (p < 0 \/ p > length) => (~r.ok /\ r.input = input)
        /\ (0 <= p /\ p <= length) =>
             (r.ok /\ getPosition(r.input).ret = p)
        /\ p = length => isExhausted(r.input).ok

\* A seek from inside the data to its end has succeeded.
C18_Witness ==
  /\ got.op = "setPosition"
  /\ got.ok
  /\ got.arg = Len(input.data)
  /\ Len(input.data) > 0
  /\ input.position = got.arg
  /\ isExhausted(input).ok

\* The labels has is asked about: those a caller supplies and the first
\* auto-increment ones.
AskedLabels == LabelArgs \cup {1}

\* C19: has(L) holds exactly when L is among ids, length is the number of
\* entries of ids, and neither markDeleted(L) nor unmarkDeleted(L) changes
\* has(L) or length, whether the call succeeds or throws.
C19_HasAndLengthFromLabelMap ==
  /\ GetLengthCall(index_) = Len(GetIdsCall(index_))
  /\ \A L \in AskedLabels :
       LET marked == MarkDeletedCall(index_, L).index
           unmarked == UnmarkDeletedCall(index_, L).index
       IN  /\ HasCall(index_, L) <=> L \in Range(GetIdsCall(index_))
           /\ HasCall(marked, L) <=> HasCall(index_, L)
           /\ HasCall(unmarked, L) <=> HasCall(index_, L)
           /\ GetLengthCall(marked) = GetLengthCall(index_)
           /\ GetLengthCall(unmarked) = GetLengthCall(index_)

\* Two points, one of them marked deleted: has still finds its label and
\* length still counts it.
C19_Witness ==
  /\ NumElements(index_) = 2
  /\ \E L \in DeletedLabels(index_) \cap AskedLabels : HasCall(index_, L)
  /\ LiveSlots(index_) # {}
  /\ GetLengthCall(index_) = 2

Busy == {w \in Workers : workers[w].pc # "idle"}
Inserting == {w \in Workers : workers[w].pc \notin {"idle", "reserve"}}

\* C7: while the workers of addItems insert the rows of a batch without ids,
\* no two of them hold the same row or the same slot and no two slots carry
\* the same label; when addItems returns, result[i] is the label under which
\* row i is stored, the labels are the next auto-increment labels, all
\* different, and the element count is the previous one plus the rows.
C7_BatchLabelsDistinctInOrder ==
  /\ \A s, t \in Slots(index_) :
       s # t => index_.labels[s] # index_.labels[t]
  /\ \A w1, w2 \in Busy : w1 # w2 => workers[w1].row # workers[w2].row
  /\ \A w1, w2 \in Inserting : w1 # w2 => workers[w1].new # workers[w2].new
  /\ batch.returned =>
       LET N == Len(batch.vectors)
       IN  /\ batch.err = "none"
           /\ Len(batch.result) = N
           /\ \A i \in 1..N :
                /\ batch.result[i] \in LabelSet(index_)
                /\ GetVectorCall(index_, batch.result[i]).out
                     = batch.vectors[i]
           /\ \A i, j \in 1..N : i # j => batch.result[i] # batch.result[j]
           /\ Range(batch.result) = batch.first..(batch.first + N - 1)
           /\ NumElements(index_) = batch.prev + N

\* addItems has returned, and the second row took its label before the first.
C7_Witness ==
  /\ batch.returned
  /\ Len(batch.result) = MaxBatch
  /\ batch.result[1] > batch.result[2]

\* C8: no search, of an insertion or of a query, reads a neighbour list
\* while it is being rewritten; a list that is being rewritten is locked; two
\* workers never write the list of the same node at once; and the list a
\* worker is about to write is the one computed from the list as it is now,
\* so that no link another worker added to it in between is lost.
C8_NodeListsExclusive ==
  /\ ~tornRead
  /\ \A s \in torn : locks[s] # NoWorker
  /\ \A w \in Workers : workers[w].pc = "write" =>
       /\ locks[workers[w].nb] = w
       /\ workers[w].nb \in torn
       /\ workers[w].pending =
            LinkBack(index_, workers[w].nb, workers[w].new, workers[w].layer)
  /\ \A w1, w2 \in Workers :
       (w1 # w2 /\ workers[w1].pc = "write" /\ workers[w2].pc = "write")
         => workers[w1].nb # workers[w2].nb

\* One worker is rewriting the list of a node, pruning it, while the other
\* waits for the lock of the same node.
C8_Witness ==
  \E w1, w2 \in Workers :
    /\ w1 # w2
    /\ workers[w1].pc = "write"
    /\ workers[w2].pc = "back"
    /\ workers[w1].nb \in workers[w2].todo
    /\ \A t \in workers[w2].todo : workers[w1].nb <= t
    /\ workers[w1].new \notin workers[w1].pending

\* The nodes whose insertion has ended, and the highest layer among them.
Inserted == Slots(index_) \ {workers[w].new : w \in Inserting}
TopLayer == CHOOSE l \in 0..MaxLevel :
              /\ \E s \in Inserted : index_.levels[s] = l
              /\ \A s \in Inserted : index_.levels[s] <= l

\* The entry point is an inserted node of the highest layer any inserted
\* node has; and between two batches, where addItem may run, addItem makes
\* the new node the entry point exactly when its layer is above that layer.
EntryPointAtTop ==
  Inserted # {} =>
    /\ index_.entryPoint \in Inserted
    /\ index_.levels[index_.entryPoint] = TopLayer
    /\ (Busy = {} /\ NumElements(index_) < index_.maxElements) =>
         \A lvl \in 0..MaxLevel :
           AddItemCall(index_, Unit(1), NoId, lvl).index.entryPoint
             = IF lvl > TopLayer THEN NumElements(index_) + 1
               ELSE index_.entryPoint

\* A step changes the entry point only to a node that has just been
\* inserted and whose layer is strictly above the highest layer so far.
EntryPointStep ==
  index_'.entryPoint # index_.entryPoint =>
    /\ index_'.entryPoint \notin Inserted
    /\ index_'.levels[index_'.entryPoint] > TopLayer

\* C13: in every state of a non-empty index, also while the workers of a
\* batch insert concurrently, the entry point is a node of the highest
\* layer of the inserted nodes, and an insertion changes it only when the
\* new node's layer is strictly greater than that layer.
C13_EntryPointAtTopLayer == []EntryPointAtTop /\ [][EntryPointStep]_vars

\* A node of the batch on a layer above all earlier nodes has become the
\* entry point while the other worker is still inserting its node.
C13_Witness ==
  /\ index_.entryPoint > 2
  /\ index_.levels[index_.entryPoint] > index_.levels[1]
  /\ Inserting # {}
  /\ index_.entryPoint \in Inserted
====
